---- MODULE Spec2Model ----
(***************************************************************************)
(* Terminal Snake (src/snake_game.py): the SnakeGame object, its methods   *)
(* generate_food, update_direction and move_snake, and the run() loop      *)
(* driven by the msvcrt keyboard buffer.                                   *)
(*                                                                         *)
(* Cells and directions are pairs <<x, y>>.  The snake is a sequence of    *)
(* cells, head first.  random.randint is a nondeterministic choice.        *)
(***************************************************************************)
EXTENDS Integers, Sequences, FiniteSets, TLC

\* Bounds of the model: the largest board the constructor is given, and the
\* number of keys typed during one run.
MaxWidth == 5
MaxHeight == 4
MaxKeys == 3

\* The largest side of a board on which the game is left without input.
MaxIdleSide == 10

\* The largest side of a board whose drawing is checked cell by cell.
MaxDrawSide == 4

\* The smallest side for which randint(1, side - 2) has a value to return.
MinSide == 3

VARIABLES
    width,       \* self.width
    height,      \* self.height
    snake,       \* self.snake, head first
    direction,   \* self.direction
    food,        \* self.food
    score,       \* self.score
    game_over,   \* self.game_over
    pc,          \* where the program is
    kbd,         \* the console's buffer of bytes typed and not yet read
    polled,      \* run(): the last get_input of this window returned nothing
    pressed,     \* the number of keys typed so far
    op,          \* history: the last operation that ran, with its argument
    prev,        \* history: the fields and buffer just before that operation
    moves,       \* history: the directions of the last two move_snake calls of run()
    idle,        \* history: the move_snake calls made on the object before the
                 \* game was over, while update_direction was never called;
                 \* -1 once update_direction was called
    eaten        \* history: what get_input returned for each key it took from
                 \* the buffer in the present window of run()

vars == <<width, height, snake, direction, food, score, game_over, pc,
          kbd, polled, pressed, op, prev, moves, idle, eaten>>

\* A field the constructor has not assigned yet.
Unset == <<>>

Fields == [snake |-> snake, direction |-> direction, food |-> food,
           score |-> score, game_over |-> game_over, kbd |-> kbd]

----------------------------------------------------------------------------
\* Pure helpers.

\* `cell in self.snake`
InSnake(cell, s) == \E i \in 1..Len(s) : s[i] = cell

\* The cells randint(1, width-2) x randint(1, height-2) can return.
Interior == (1..(width - 2)) \X (1..(height - 2))

\* generate_food without the test against the snake.
FreeCellsAny(s) == Interior

\* The cells on which generate_food's loop can exit: sampled, not in s.
FreeCells(s) == {c \in Interior : ~InSnake(c, s)}

\* The directions dictionary of update_direction.
directions == [w |-> <<0, -1>>, s |-> <<0, 1>>, a |-> <<-1, 0>>, d |-> <<1, 0>>]

Negated(v) == <<v[1] * (-1), v[2] * (-1)>>

\* update_direction without the test against the opposite direction.
NewDirectionAny(key, dir) ==
    IF key \in DOMAIN directions THEN directions[key] ELSE dir

\* update_direction(key): the value of self.direction after the call.
NewDirection(key, dir) ==
    IF key \in DOMAIN directions
    THEN IF Negated(directions[key]) # dir THEN directions[key] ELSE dir
    ELSE dir

\* new_head of move_snake.
NewHead(s, dir) == <<s[1][1] + dir[1], s[1][2] + dir[2]>>

\* The wall test with strict comparisons.
HitsWallStrict(h) == h[1] < 0 \/ h[1] > width - 1 \/ h[2] < 0 \/ h[2] > height - 1

\* The wall test of move_snake.
HitsWall(h) == h[1] <= 0 \/ h[1] >= width - 1 \/ h[2] <= 0 \/ h[2] >= height - 1

\* No self test.
HitsSelfNever(h, s) == FALSE

\* The self test against the snake without its last segment.
HitsSelfButTail(h, s) == InSnake(h, SubSeq(s, 1, Len(s) - 1))

\* The self test of move_snake.
HitsSelf(h, s) == InSnake(h, s)

\* self.snake.insert(0, new_head)
Grown(h, s) == <<h>> \o s

\* self.snake.pop(0)
PoppedHead(s) == Tail(s)

\* self.snake.pop()
Popped(s) == SubSeq(s, 1, Len(s) - 1)

\* The score added for one food.
FoodScore == 10

----------------------------------------------------------------------------
\* Operations of the object.

Init ==
    /\ width \in MinSide..MaxWidth
    /\ height \in MinSide..MaxHeight
    /\ snake = Unset /\ direction = Unset /\ food = Unset
    /\ score = 0 /\ game_over = FALSE
    /\ pc = "start"
    /\ kbd = <<>> /\ polled = FALSE /\ pressed = 0
    /\ op = <<"none">>
    /\ prev = Unset
    /\ moves = <<>>
    /\ idle = 0
    /\ eaten = <<>>

\* generate_food() called with the snake s: the loop exits on a sampled cell
\* that is free (with probability 1 when there is one); with no free cell it
\* never exits and the caller never resumes.
generate_food(s, resume) ==
    IF FreeCells(s) = {}
    THEN food' = food /\ pc' = "hang"
    ELSE food' \in FreeCells(s) /\ pc' = resume

\* SnakeGame(width, height)
Construct ==
    /\ pc = "start"
    /\ snake' = <<<<width \div 2, height \div 2>>>>
    /\ direction' = <<1, 0>>
    /\ generate_food(snake', "constructed")
    /\ score' = 0
    /\ game_over' = FALSE
    /\ op' = <<"construct">>
    /\ UNCHANGED <<width, height, kbd, polled, pressed, prev, moves, idle, eaten>>

\* move_snake with the pop outside the else: the tail goes on every move.
move_snakePopAlways(dir, after_collision, after_move) ==
    LET new_head == NewHead(snake, dir) IN
    IF HitsWall(new_head) \/ HitsSelf(new_head, snake)
    THEN /\ game_over' = TRUE
         /\ pc' = after_collision
         /\ UNCHANGED <<snake, food, score>>
    ELSE IF new_head = food
    THEN /\ snake' = Popped(Grown(new_head, snake))
         /\ score' = score + FoodScore
         /\ generate_food(snake', after_move)
         /\ UNCHANGED game_over
    ELSE /\ snake' = Popped(Grown(new_head, snake))
         /\ pc' = after_move
         /\ UNCHANGED <<food, score, game_over>>

\* move_snake that clears game_over when the move succeeds.
move_snakeRevive(dir, after_collision, after_move) ==
    LET new_head == NewHead(snake, dir) IN
    IF HitsWall(new_head) \/ HitsSelf(new_head, snake)
    THEN /\ game_over' = TRUE
         /\ pc' = after_collision
         /\ UNCHANGED <<snake, food, score>>
    ELSE IF new_head = food
    THEN /\ snake' = Grown(new_head, snake)
         /\ score' = score + FoodScore
         /\ generate_food(snake', after_move)
         /\ game_over' = FALSE
    ELSE /\ snake' = Popped(Grown(new_head, snake))
         /\ pc' = after_move
         /\ game_over' = FALSE
         /\ UNCHANGED <<food, score>>

\* move_snake() with dir the value of self.direction; the caller goes on at
\* after_collision or after_move when the call returns.
move_snake(dir, after_collision, after_move) ==
    LET new_head == NewHead(snake, dir) IN
    IF HitsWall(new_head) \/ HitsSelf(new_head, snake)
    THEN /\ game_over' = TRUE
         /\ pc' = after_collision
         /\ UNCHANGED <<snake, food, score>>
    ELSE IF new_head = food
    THEN /\ snake' = Grown(new_head, snake)
         /\ score' = score + FoodScore
         /\ generate_food(snake', after_move)
         /\ UNCHANGED game_over
    ELSE /\ snake' = Popped(Grown(new_head, snake))
         /\ pc' = after_move
         /\ UNCHANGED <<food, score, game_over>>

\* The cells of the board draw() builds: board[y][x] for <<x, y>>.
Grid == (0..(width - 1)) \X (0..(height - 1))

\* The border loops of draw() with the last column left out.
BorderCellShort(c) ==
    \/ c[1] \in 0..(width - 2) /\ c[2] \in {0, height - 1}
    \/ c[2] \in 0..(height - 1) /\ c[1] = 0

\* The cells the two border loops of draw() write.
BorderCell(c) ==
    \/ c[1] \in 0..(width - 1) /\ c[2] \in {0, height - 1}
    \/ c[2] \in 0..(height - 1) /\ c[1] \in {0, width - 1}

\* The glyph of the i-th segment.
SnakeGlyph(i) == IF i = 1 THEN "@" ELSE "*"

\* The last segment of s on cell c: the one whose glyph stays.
LastOn(c, s) == CHOOSE i \in 1..Len(s) : s[i] = c /\ \A j \in (i + 1)..Len(s) : s[j] # c

\* The board draw() prints: blanks, then the border, then the snake segment
\* by segment, then the food, each written over what is there.
draw ==
    [c \in Grid |->
        IF c = food THEN "$"
        ELSE IF InSnake(c, snake) THEN SnakeGlyph(LastOn(c, snake))
        ELSE IF BorderCell(c) THEN "#"
        ELSE " "]

----------------------------------------------------------------------------
\* The object driven call by call, in any order and any state.

\* The arguments update_direction is called with.
Keys == {"w", "a", "s", "d", "q", "x"}

CallUpdateDirection ==
    /\ pc = "constructed"
    /\ \E key \in Keys :
          /\ direction' = NewDirection(key, direction)
          /\ op' = <<"update_direction", key>>
    /\ prev' = Fields
    /\ idle' = -1
    /\ UNCHANGED <<width, height, snake, food, score, game_over, pc,
                   kbd, polled, pressed, moves, eaten>>

CallMoveSnake ==
    /\ pc = "constructed"
    /\ move_snake(direction, "constructed", "constructed")
    /\ op' = <<"move_snake">>
    /\ prev' = Fields
    /\ idle' = IF idle >= 0 /\ ~game_over THEN idle + 1 ELSE idle
    /\ UNCHANGED <<width, height, direction, kbd, polled, pressed, moves, eaten>>

Next == Construct \/ CallUpdateDirection \/ CallMoveSnake

Spec == Init /\ [][Next]_vars

\* The object with no input at all: move_snake is the only call made. The
\* boards go up to MaxIdleSide on each side.
IdleInit ==
    /\ width \in MinSide..MaxIdleSide
    /\ height \in MinSide..MaxIdleSide
    /\ snake = Unset /\ direction = Unset /\ food = Unset
    /\ score = 0 /\ game_over = FALSE
    /\ pc = "start"
    /\ kbd = <<>> /\ polled = FALSE /\ pressed = 0
    /\ op = <<"none">>
    /\ prev = Unset
    /\ moves = <<>>
    /\ idle = 0
    /\ eaten = <<>>

IdleNext == Construct \/ CallMoveSnake

IdleSpec == IdleInit /\ [][IdleNext]_vars

\* The object driven call by call on the boards up to MaxDrawSide on each
\* side, for the properties that look at every cell of the board.
DrawInit ==
    /\ width \in MinSide..MaxDrawSide
    /\ height \in MinSide..MaxDrawSide
    /\ snake = Unset /\ direction = Unset /\ food = Unset
    /\ score = 0 /\ game_over = FALSE
    /\ pc = "start"
    /\ kbd = <<>> /\ polled = FALSE /\ pressed = 0
    /\ op = <<"none">>
    /\ prev = Unset
    /\ moves = <<>>
    /\ idle = 0
    /\ eaten = <<>>

DrawSpec == DrawInit /\ [][Next]_vars

----------------------------------------------------------------------------
\* The keyboard and get_input.

\* The bytes one key press puts in the console buffer.
KeyBytes(k) ==
    CASE k = "Up" -> <<"E0", "H">>
      [] k = "Down" -> <<"E0", "P">>
      [] k = "Left" -> <<"E0", "K">>
      [] k = "Right" -> <<"E0", "M">>
      [] k = "Home" -> <<"E0", "G">>
      [] OTHER -> <<k>>

\* bytes.decode('utf-8') of one byte: "raise" for a byte that is not ASCII.
Decode(b) == IF b = "FF" THEN "raise" ELSE b

\* str.lower()
Lower(c) ==
    CASE c = "W" -> "w" [] c = "A" -> "a" [] c = "S" -> "s" [] c = "D" -> "d"
      [] c = "Q" -> "q" [] c = "H" -> "h" [] c = "P" -> "p" [] c = "K" -> "k"
      [] c = "M" -> "m" [] c = "G" -> "g" [] OTHER -> c

\* What get_input() returns on the buffer buf: "None", a character, or
\* "raise" for the UnicodeDecodeError.
get_input(buf) ==
    IF buf = <<>> THEN "None"
    ELSE IF buf[1] = "E0"
    THEN CASE buf[2] = "H" -> "w"
           [] buf[2] = "P" -> "s"
           [] buf[2] = "K" -> "a"
           [] buf[2] = "M" -> "d"
           [] OTHER -> "None"
    ELSE IF Decode(buf[1]) = "raise" THEN "raise" ELSE Lower(Decode(buf[1]))

\* A get_input that drops everything typed.
UnreadNothing(buf) == <<>>

\* The buffer get_input() leaves.
Unread(buf) ==
    IF buf = <<>> THEN buf
    ELSE IF buf[1] = "E0" THEN SubSeq(buf, 3, Len(buf))
    ELSE Tail(buf)

\* `if key:`
Truthy(key) == key # "None"

----------------------------------------------------------------------------
\* main(): SnakeGame() and then run().

\* The keys typed while the game runs: the four letters, quit, a letter that
\* is no command, and a byte that is not ASCII.
Typed == {"w", "a", "s", "d", "q", "x", "FF"}

\* `while True`
LoopTestForever(over) == "window"

\* `while not self.game_over`: where run() goes on after move_snake.
LoopTest(over) == IF over THEN "ended" ELSE "window"

\* `if key == 'Q'`, after lower()
IsQuitUpper(key) == key = "Q"

\* `if key == 'q': break`
IsQuit(key) == key = "q"

\* What get_input has returned for the keys taken so far in this window.
Window == IF polled THEN eaten ELSE <<>>

\* The directions of the last two move_snake calls, dir being the latest.
Moved(dir) == IF moves = <<>> THEN <<dir>> ELSE <<moves[Len(moves)], dir>>

\* A key is typed: its bytes join the console buffer.
KeyPress ==
    /\ pc \in {"constructed", "window", "ended"}
    /\ pressed < MaxKeys
    /\ \E k \in Typed : kbd' = kbd \o KeyBytes(k)
    /\ pressed' = pressed + 1
    /\ UNCHANGED <<width, height, snake, direction, food, score, game_over,
                   pc, polled, op, prev, moves, idle, eaten>>

\* run() up to the loop: the banner, and getch() takes the first byte typed.
RunStart ==
    /\ pc = "constructed"
    /\ kbd # <<>>
    /\ kbd' = Tail(kbd)
    /\ pc' = LoopTest(game_over)
    /\ polled' = FALSE
    /\ op' = <<"start">>
    /\ prev' = Fields
    /\ UNCHANGED <<width, height, snake, direction, food, score, game_over,
                   pressed, moves, idle, eaten>>

\* The rest of one iteration of the loop once the window has ended with key:
\* quit, or update_direction (for a key) and move_snake, and the loop test.
Iteration(key) ==
    /\ IF IsQuit(key)
       THEN /\ pc' = "ended"
            /\ UNCHANGED <<snake, direction, food, score, game_over, moves>>
       ELSE /\ direction' = IF Truthy(key) THEN NewDirection(key, direction)
                                           ELSE direction
            /\ move_snake(direction', LoopTest(TRUE), LoopTest(FALSE))
            /\ moves' = Moved(direction')
    /\ polled' = FALSE
    /\ op' = <<"iteration", key>>
    /\ prev' = Fields
    /\ UNCHANGED <<width, height, pressed, idle>>

\* A poll of the window that returns nothing: the buffer is empty, or holds
\* an extended key that is no arrow. The window goes on after a sleep.
PollNothing ==
    /\ pc = "window"
    /\ ~Truthy(get_input(kbd))
    /\ kbd # <<>> \/ ~polled
    /\ kbd' = Unread(kbd)
    /\ polled' = TRUE
    /\ op' = <<"poll">>
    /\ prev' = Fields
    /\ eaten' = Window \o (IF kbd = <<>> THEN <<>> ELSE <<get_input(kbd)>>)
    /\ UNCHANGED <<width, height, snake, direction, food, score, game_over,
                   pc, pressed, moves, idle>>

\* The 200 ms end after a poll that returned nothing: the iteration runs
\* with key = None.
WindowTimeout ==
    /\ pc = "window"
    /\ polled
    /\ Iteration("None")
    /\ UNCHANGED <<kbd, eaten>>

\* A poll of the window that returns a key: the window ends at once and the
\* iteration runs with that key.
PollKey ==
    /\ pc = "window"
    /\ Truthy(get_input(kbd))
    /\ get_input(kbd) # "raise"
    /\ kbd' = Unread(kbd)
    /\ eaten' = Window \o <<get_input(kbd)>>
    /\ Iteration(get_input(kbd))

\* A poll whose decode raises: main() reports the error and returns.
PollRaise ==
    /\ pc = "window"
    /\ get_input(kbd) = "raise"
    /\ kbd' = Unread(kbd)
    /\ pc' = "error"
    /\ op' = <<"raise">>
    /\ prev' = Fields
    /\ eaten' = Window \o <<get_input(kbd)>>
    /\ UNCHANGED <<width, height, snake, direction, food, score, game_over,
                   polled, pressed, moves, idle>>

\* The game over screen: the final score, and getch() takes one byte.
RunEnd ==
    /\ pc = "ended"
    /\ kbd # <<>>
    /\ kbd' = Tail(kbd)
    /\ pc' = "exit"
    /\ op' = <<"end">>
    /\ prev' = Fields
    /\ UNCHANGED <<width, height, snake, direction, food, score, game_over,
                   polled, pressed, moves, idle, eaten>>

RunNext ==
    \/ Construct \/ KeyPress \/ RunStart \/ PollNothing \/ WindowTimeout
    \/ PollKey \/ PollRaise \/ RunEnd

RunSpec == Init /\ [][RunNext]_vars

\* The same program with arrow keys, an upper case letter and an extended
\* key that is no arrow among the keys typed.
ArrowTyped == {"w", "a", "q", "W", "Up", "Left", "Right", "Home"}

ArrowKeyPress ==
    /\ pc \in {"constructed", "window", "ended"}
    /\ pressed < MaxKeys
    /\ \E k \in ArrowTyped : kbd' = kbd \o KeyBytes(k)
    /\ pressed' = pressed + 1
    /\ UNCHANGED <<width, height, snake, direction, food, score, game_over,
                   pc, polled, op, prev, moves, idle, eaten>>

ArrowNext ==
    \/ Construct \/ ArrowKeyPress \/ RunStart \/ PollNothing \/ WindowTimeout
    \/ PollKey \/ RunEnd

ArrowSpec == Init /\ [][ArrowNext]_vars

----------------------------------------------------------------------------
\* Vocabulary of the properties, stated on the board and not on the code.

\* A cell on or outside the border.
OnBorder(c) == c[1] <= 0 \/ c[1] >= width - 1 \/ c[2] <= 0 \/ c[2] >= height - 1

\* A cell of the playable area [1, width-2] x [1, height-2].
Playable(c) == c[1] >= 1 /\ c[1] <= width - 2 /\ c[2] >= 1 /\ c[2] <= height - 2

\* The cell s occupies no matter where.
Occupies(s, c) == \E i \in DOMAIN s : s[i] = c

\* s without its last element.
Front(s) == [i \in 1..(Len(s) - 1) |-> s[i]]

\* The cell one step from the head of s in direction v.
Ahead(s, v) == <<s[1][1] + v[1], s[1][2] + v[2]>>

\* The last operation was a call of move_snake made directly on the object.
MoveCalled == op = <<"move_snake">>

\* The last operation was one iteration of run()'s loop.
Iterated == op[1] = "iteration"

\* p is a prefix of q.
IsPrefix(p, q) == Len(p) <= Len(q) /\ \A i \in 1..Len(p) : p[i] = q[i]

----------------------------------------------------------------------------
\* C1: a move_snake call made with game_over false and the cell ahead of the
\* head on or outside the border sets game_over and leaves snake, score,
\* food and direction as they were.
C1_WallCollision ==
    (MoveCalled /\ ~prev.game_over /\ OnBorder(Ahead(prev.snake, prev.direction)))
        => /\ game_over
           /\ snake = prev.snake
           /\ score = prev.score
           /\ food = prev.food
           /\ direction = prev.direction

\* A move into the border was made by a snake that had grown.
C1_Witness ==
    /\ MoveCalled
    /\ ~prev.game_over
    /\ OnBorder(Ahead(prev.snake, prev.direction))
    /\ Len(prev.snake) >= 2
    /\ game_over

\* C2: while game_over is false the segments of the snake are pairwise
\* distinct, whatever update_direction and move_snake calls were made.
C2_Distinct ==
    (pc # "start" /\ ~game_over)
        => \A i, j \in 1..Len(snake) : i # j => snake[i] # snake[j]

\* A snake of three segments has just moved and the game goes on.
C2_Witness ==
    /\ MoveCalled
    /\ ~game_over
    /\ Len(snake) >= 3
    /\ snake # prev.snake

\* C3: once the constructor has returned, and after every move_snake call
\* that has returned, the food is on no snake segment and in the playable area.
C3_FoodFree ==
    pc = "constructed" => (~Occupies(snake, food) /\ Playable(food))

\* Food was eaten by a snake of two segments and new food was placed.
C3_Witness ==
    /\ MoveCalled
    /\ pc = "constructed"
    /\ Len(prev.snake) >= 2
    /\ Len(snake) = Len(prev.snake) + 1
    /\ food # prev.food

\* C4: update_direction with the command that negates the direction leaves
\* the direction; with any other of the four commands it sets the direction
\* to the command's vector; snake, food, score and game_over are unchanged.
C4_UpdateDirection ==
    op[1] = "update_direction" =>
        /\ op[2] \in {"w", "a", "s", "d"} =>
              direction = IF directions[op[2]][1] = 0 - prev.direction[1]
                             /\ directions[op[2]][2] = 0 - prev.direction[2]
                          THEN prev.direction
                          ELSE directions[op[2]]
        /\ snake = prev.snake
        /\ food = prev.food
        /\ score = prev.score
        /\ game_over = prev.game_over

\* The reverse command was given to a snake going right, and refused.
C4_Witness ==
    /\ op = <<"update_direction", "a">>
    /\ prev.direction = <<1, 0>>
    /\ direction = <<1, 0>>
    /\ Len(snake) >= 2

\* C5: a move_snake call that does not collide puts the new head in front of
\* the snake; on the food it keeps the tail, adds 10 to the score and (when
\* generate_food returns) places new food; off the food it drops the tail
\* and leaves score and food.
C5_Move ==
    (MoveCalled /\ ~OnBorder(Ahead(prev.snake, prev.direction))
                /\ ~Occupies(prev.snake, Ahead(prev.snake, prev.direction)))
        => LET h == Ahead(prev.snake, prev.direction) IN
           IF h = prev.food
           THEN /\ snake = <<h>> \o prev.snake
                /\ Len(snake) = Len(prev.snake) + 1
                /\ score = prev.score + 10
                /\ pc = "constructed" => food # prev.food
           ELSE /\ snake = <<h>> \o Front(prev.snake)
                /\ Len(snake) = Len(prev.snake)
                /\ score = prev.score
                /\ food = prev.food

\* A snake of two segments moved without eating; its tail was dropped.
C5_Witness ==
    /\ MoveCalled
    /\ Len(prev.snake) >= 2
    /\ snake = <<Ahead(prev.snake, prev.direction)>> \o Front(prev.snake)
    /\ prev.food # Ahead(prev.snake, prev.direction)

\* C7 (as claimed): no generate_food call spins for ever.
C7_Terminates == pc # "hang"

----------------------------------------------------------------------------
\* Properties of run().

\* The bytes of the first key of a buffer that is not empty.
FirstKeyLen(buf) == IF buf[1] = "E0" THEN 2 ELSE 1

\* The keys a buffer holds, in order, as get_input would return them.
RECURSIVE Pending(_)
Pending(buf) ==
    IF buf = <<>> THEN <<>>
    ELSE <<get_input(buf)>> \o Pending(SubSeq(buf, FirstKeyLen(buf) + 1, Len(buf)))

\* C6: in run(), once game_over is true it stays true, run() is at the game
\* over screen or past it, and snake, score, food and direction keep their
\* values whatever is typed.
C6_Absorbing ==
    /\ [](game_over => pc \in {"ended", "exit"})
    /\ [][game_over => /\ game_over'
                       /\ snake' = snake
                       /\ score' = score
                       /\ food' = food
                       /\ direction' = direction]_vars

\* The game ended on a collision, keys were typed after it, and the program
\* has left the game over screen.
C6_Witness ==
    /\ game_over
    /\ pc = "exit"
    /\ op = <<"end">>
    /\ Len(prev.kbd) >= 2

C9_NoReverse ==
    Len(moves) = 2 =>
        ~(moves[2][1] = 0 - moves[1][1] /\ moves[2][2] = 0 - moves[1][2])

\* The snake went right, "a" was the key of the next iteration, and the
\* move of that iteration went right again.
C9_Witness ==
    /\ op = <<"iteration", "a">>
    /\ prev.direction = <<1, 0>>
    /\ moves = <<<<1, 0>>, <<1, 0>>>>

\* C10: the iteration whose key is quit goes to the game over screen with
\* snake, score, food and direction as they were and game_over false.
C10_Quit ==
    op = <<"iteration", "q">>
        => /\ pc \in {"ended", "exit"}
           /\ snake = prev.snake
           /\ score = prev.score
           /\ food = prev.food
           /\ direction = prev.direction
           /\ ~game_over

\* Quit was typed after food had been eaten; the final score is that score.
C10_Witness ==
    /\ op = <<"iteration", "q">>
    /\ pc = "ended"
    /\ score = 10
    /\ Len(snake) = 2
    /\ ~game_over

----------------------------------------------------------------------------
\* C11: with no input, after n move_snake calls the head is n cells to the
\* right of the centre on the centre row, going right; the call that would
\* put the head on x = width-1 is call number width-1 - width\div 2, it sets
\* game_over, leaves the score and leaves the head on (width-2, height\div 2).
C11_NoInput ==
    (pc = "constructed" /\ idle >= 0)
        => /\ direction = <<1, 0>>
           /\ idle <= width - 1 - (width \div 2)
           /\ game_over <=> idle = width - 1 - (width \div 2)
           /\ ~game_over => snake[1] = <<(width \div 2) + idle, height \div 2>>
           /\ game_over => snake[1] = <<width - 2, height \div 2>>
           /\ (MoveCalled /\ game_over /\ ~prev.game_over) => score = prev.score

\* On the 10 x 10 board the fourth call has just ended the game, the head
\* having gone by (6,5), (7,5) and (8,5).
C11_Witness ==
    /\ width = 10 /\ height = 10
    /\ MoveCalled
    /\ idle = 4
    /\ game_over /\ ~prev.game_over
    /\ snake[1] = <<8, 5>>
    /\ score = prev.score

----------------------------------------------------------------------------
\* The commands get_input is meant to deliver.
Recognised == {"w", "a", "s", "d", "q"}

\* C12 (as claimed): a key that is no command counts as no key: it does not
\* end the run, and an iteration that reads a key applies the first command
\* pending, whatever keys that are no command lie before it in the buffer.
C12_AsNoKey ==
    /\ pc # "error"
    /\ (Iterated /\ op[2] # "None")
          => LET ks == Pending(prev.kbd) IN
             \A i \in 1..Len(ks) :
                (ks[i] \in Recognised /\ \A j \in 1..(i - 1) : ks[j] \notin Recognised)
                    => op[2] = ks[i]

----------------------------------------------------------------------------
\* The letter an arrow key stands for, and the lower case of a letter key;
\* "None" for an extended key that is no arrow.
LetterOf(k) ==
    CASE k = "Up" -> "w" [] k = "Down" -> "s" [] k = "Left" -> "a"
      [] k = "Right" -> "d" [] k = "Home" -> "None" [] k = "W" -> "w"
      [] OTHER -> k

\* C13 (as claimed): arrow keys are read as their letters in every key
\* stream, so the key an iteration applies is always the letter of a key
\* that was typed.
C13_ArrowAsLetter ==
    Iterated => op[2] \in {LetterOf(k) : k \in ArrowTyped}

----------------------------------------------------------------------------
\* C14: a move_snake call made with game_over false and the cell ahead inside
\* the border and on a snake segment, the last one included, sets game_over
\* and leaves snake, score and food.
C14_SelfCollision ==
    (MoveCalled /\ ~prev.game_over
                /\ ~OnBorder(Ahead(prev.snake, prev.direction))
                /\ Occupies(prev.snake, Ahead(prev.snake, prev.direction)))
        => /\ game_over
           /\ snake = prev.snake
           /\ score = prev.score
           /\ food = prev.food

\* The head moved onto the cell of the last segment and the game ended.
C14_Witness ==
    /\ MoveCalled
    /\ ~prev.game_over
    /\ Len(prev.snake) >= 4
    /\ Ahead(prev.snake, prev.direction) = prev.snake[Len(prev.snake)]
    /\ game_over
    /\ snake = prev.snake

\* C15 (as claimed): a move_snake call on a state with game_over true
\* changes nothing.
C15_NoEffect ==
    (MoveCalled /\ prev.game_over)
        => /\ game_over
           /\ snake = prev.snake
           /\ score = prev.score
           /\ food = prev.food

\* C15 (amended): a move_snake call on a state with game_over true leaves
\* game_over true; it leaves snake, score and food when the cell ahead is on
\* the border or on the snake, and moves the head there when it is not.
C15_StaysOver ==
    (MoveCalled /\ prev.game_over)
        => /\ game_over
           /\ IF OnBorder(Ahead(prev.snake, prev.direction))
                 \/ Occupies(prev.snake, Ahead(prev.snake, prev.direction))
              THEN snake = prev.snake /\ score = prev.score /\ food = prev.food
              ELSE snake[1] = Ahead(prev.snake, prev.direction)

\* After the game was over the snake was turned and moved, and ate.
C15_Witness ==
    /\ MoveCalled
    /\ prev.game_over
    /\ game_over
    /\ snake[1] = Ahead(prev.snake, prev.direction)
    /\ score = prev.score + 10

\* C16: once the object is built, the board draw() prints has '#' on exactly
\* row 0, row height-1, column 0 and column width-1, '@' on exactly the head,
\* '*' on exactly the other segments, '$' on exactly the food, blank elsewhere.
C16_Board ==
    pc = "constructed" =>
        \A c \in (0..(width - 1)) \X (0..(height - 1)) :
            /\ draw[c] = "#" <=> OnBorder(c)
            /\ draw[c] = "@" <=> c = snake[1]
            /\ draw[c] = "*" <=> \E i \in 2..Len(snake) : snake[i] = c
            /\ draw[c] = "$" <=> c = food
            /\ draw[c] = " " <=> ~OnBorder(c) /\ ~Occupies(snake, c) /\ c # food

\* A snake of three segments lies beside the border with food on the board.
C16_Witness ==
    /\ pc = "constructed"
    /\ Len(snake) >= 3
    /\ snake[1][1] = width - 2
    /\ draw[snake[1]] = "@"
    /\ draw[snake[3]] = "*"
    /\ draw[food] = "$"

\* C17: once the object is built the score is ten times the segments beyond
\* the first, and no update_direction or move_snake call lowers it.
C17_Score ==
    pc # "start" =>
        /\ score = 10 * (Len(snake) - 1)
        /\ score >= 0
        /\ op[1] \in {"update_direction", "move_snake"} => score >= prev.score

\* Two foods were eaten.
C17_Witness ==
    /\ MoveCalled
    /\ score = 20
    /\ prev.score = 10
    /\ Len(snake) = 3

\* C18: once the object is built, before and after the game ends, every
\* segment is in the playable area and consecutive segments are neighbours
\* along a row or a column.
C18_Inside ==
    pc # "start" =>
        /\ \A i \in 1..Len(snake) : Playable(snake[i])
        /\ \A i \in 1..(Len(snake) - 1) :
              \/ snake[i][1] = snake[i + 1][1]
                 /\ snake[i][2] - snake[i + 1][2] \in {-1, 1}
              \/ snake[i][2] = snake[i + 1][2]
                 /\ snake[i][1] - snake[i + 1][1] \in {-1, 1}

\* The game ended against the border with a snake of three segments that
\* had turned a corner.
C18_Witness ==
    /\ MoveCalled
    /\ game_over
    /\ Len(snake) >= 3
    /\ snake[1][1] # snake[3][1]
    /\ snake[1][2] # snake[3][2]
    /\ OnBorder(Ahead(snake, direction))

----------------------------------------------------------------------------
\* C19 (as claimed): one iteration of run()'s loop takes at most one key
\* from the buffer.
C19_OneKey == Iterated => Len(eaten) <= 1

\* C19 (amended): of the keys one iteration takes from the buffer, all but
\* the last are extended keys that are no arrow, for which get_input returns
\* nothing; the last is the earliest key pending that get_input returns, and
\* the only one given to update_direction, before the one move_snake call
\* (none for quit); the bytes behind it stay in the buffer in order.
C19_Window ==
    Iterated =>
        /\ \A i \in 1..(Len(eaten) - 1) : eaten[i] = "None"
        /\ IF op[2] = "None"
           THEN /\ \A i \in 1..Len(eaten) : eaten[i] = "None"
                /\ direction = prev.direction
                /\ IsPrefix(prev.kbd, kbd)
           ELSE /\ eaten # <<>>
                /\ eaten[Len(eaten)] = op[2]
                /\ prev.kbd # <<>>
                /\ op[2] = Pending(prev.kbd)[1]
                /\ direction \in {prev.direction} \cup
                      {directions[k] : k \in {op[2]} \cap {"w", "a", "s", "d"}}
                /\ IsPrefix(SubSeq(prev.kbd, FirstKeyLen(prev.kbd) + 1, Len(prev.kbd)),
                            kbd)
        /\ IF op[2] = "q"
           THEN snake = prev.snake /\ ~game_over
           ELSE moves # <<>> /\ moves[Len(moves)] = direction

\* An extended key that is no arrow and then "w" were taken in one window,
\* and "w" turned the snake up.
C19_Witness ==
    /\ Iterated
    /\ eaten = <<"None", "w">>
    /\ op[2] = "w"
    /\ prev.direction = <<1, 0>>
    /\ direction = <<0, -1>>
====
